---- MODULE Spec2Model ----
(***************************************************************************)
(* Model of the gisquick map gateway: the OWS handler (handleMapOws) and   *)
(* the project map handler (handleGetMap), each a sequence of steps of one *)
(* request, with the project service behind them.                          *)
(*                                                                         *)
(* Strings that the code takes apart are kept in parsed form:              *)
(*   - a path is a sequence of segments; a trailing segment taken from     *)
(*     Exts is the extension of the segment before it                      *)
(*     ("u1/p1.qgs" is <<"u1", "p1", ".qgs">>);                            *)
(*   - a layer type name is the sequence of its ":"-separated parts        *)
(*     ("public:parcels" is <<"public", "parcels">>);                      *)
(*   - a request body is the sequence of the parts of the document.        *)
(***************************************************************************)
EXTENDS Integers, Sequences, FiniteSets, TLC

\* ---------------------------------------------------------------- bounds
MaxBody == 2        \* elements under the root of a request body
MaxObjects == 1     \* objects of one Insert element

\* ------------------------------------------------------- the environment
Users == {"alice", "guest"}

Exts == {".qgs"}

P1 == <<"u1", "p1">>      \* published
P2 == <<"u1", "p2">>      \* draft, settings saved
P3 == <<"u2", "p3">>      \* empty, no settings yet
PNone == <<"u2", "nope">> \* no such project

Projects == {P1, P2, P3}
Routes == Projects \cup {PNone}

NoInfo == [State |-> "", QgisFile |-> <<>>]

ProjectInfo(p) ==
    CASE p = P1 -> [State |-> "published", QgisFile |-> <<"p1", ".qgs">>]
      [] p = P2 -> [State |-> "draft", QgisFile |-> <<"p2", ".qgs">>]
      [] p = P3 -> [State |-> "empty", QgisFile |-> <<"p3", ".qgs">>]
      [] OTHER -> NoInfo

\* domain.LayerPermission
Perm(v, i, u, d) == [View |-> v, Insert |-> i, Update |-> u, Delete |-> d]

NoPermission == Perm(FALSE, FALSE, FALSE, FALSE)

EmptyMap == [x \in {} |-> NoPermission]

NoSettings == [u \in Users |-> EmptyMap]

\* The settings of a project: user -> layer id -> permission flags.
ProjectSettings(p) ==
    CASE p = P1 ->
           [u \in Users |->
              IF u = "alice"
              THEN ("roads_1" :> Perm(TRUE, TRUE, TRUE, TRUE)) @@
                   ("parcels_2" :> Perm(TRUE, TRUE, FALSE, FALSE))
              ELSE ("roads_1" :> Perm(TRUE, FALSE, FALSE, FALSE)) @@
                   ("parcels_2" :> Perm(TRUE, FALSE, FALSE, FALSE))]
      [] p = P2 ->
           [u \in Users |-> ("roads_9" :> Perm(TRUE, TRUE, TRUE, TRUE))]
      [] OTHER -> NoSettings

HasSettings(p) == p \in {P1, P2}

NoLayers == [x \in {} |-> ""]

\* LayersData.LayerNameToID of a project.
LayerNameToID(p) ==
    CASE p = P1 -> ("roads" :> "roads_1") @@ ("parcels" :> "parcels_2")
      [] p = P2 -> ("roads" :> "roads_9")
      [] OTHER -> NoLayers

\* ProjectService.GetProjectInfo
GetProjectInfo(p) ==
    IF p \in Projects
    THEN [err |-> "nil", info |-> ProjectInfo(p)]
    ELSE [err |-> "ErrProjectNotExists", info |-> NoInfo]

\* ProjectService.GetSettings
GetSettings(p) ==
    IF HasSettings(p)
    THEN [err |-> "nil", settings |-> ProjectSettings(p)]
    ELSE [err |-> "error", settings |-> NoSettings]

\* ProjectService.GetLayersData
GetLayersData(p) ==
    IF p \in Projects /\ ProjectInfo(p).State # "empty"
    THEN [err |-> "nil", l2id |-> LayerNameToID(p)]
    ELSE [err |-> "error", l2id |-> NoLayers]

\* ProjectSettings.UserLayerPermissions
UserLayerPermissions(st, u, id) ==
    IF id \in DOMAIN st[u] THEN st[u][id] ELSE NoPermission

\* ------------------------------------------------------------- strings
Last(s) == s[Len(s)]

\* filepath.Ext
Ext(path) == IF Len(path) > 0 /\ Last(path) \in Exts THEN Last(path) ELSE ""

\* strings.TrimSuffix(path, ext)
TrimSuffix(path, ext) ==
    IF ext # "" /\ Len(path) > 0 /\ Last(path) = ext
    THEN SubSeq(path, 1, Len(path) - 1)
    ELSE path

\* filepath.Join("/publish", projectName, pInfo.QgisFile)
OwsProjectPath(projectName, qgisFile) == <<"/", "publish">> \o projectName \o qgisFile

\* url.Values is key -> sequence of values.
\* variant: url.Values.Add in place of Set
QuerySet_add(q, key, val) == [q EXCEPT ![key] = Append(@, val)]

\* url.Values.Set
QuerySet(q, key, val) == [q EXCEPT ![key] = <<val>>]

\* ------------------------------------------------------ request bodies
TypeNames == {<<"roads">>, <<"public", "parcels">>, <<"ghost">>}

LocalNames == {<<"parcels">>}

SeqsUpTo(S, n) == UNION {[1..k -> S] : k \in 0..n}

Elements ==
    {[kind |-> k, names |-> <<t>>] : k \in {"Update", "Delete"}, t \in TypeNames}
    \cup {[kind |-> "Insert", names |-> o] : o \in SeqsUpTo(LocalNames, MaxObjects)}
    \cup {[kind |-> "Junk", names |-> <<>>]}

Root == [kind |-> "Root", names |-> <<>>]

\* The empty body, and documents of a root element with up to MaxBody
\* elements, some of them malformed (Junk).
Bodies == {<<>>} \cup {<<Root>> \o s : s \in SeqsUpTo(Elements, MaxBody)}

RECURSIVE Flatten(_)
Flatten(ss) == IF ss = <<>> THEN <<>> ELSE Head(ss) \o Flatten(Tail(ss))

RECURSIVE Select(_, _)
Select(s, kind) ==
    IF s = <<>> THEN <<>>
    ELSE IF Head(s).kind = kind
         THEN <<Head(s).names>> \o Select(Tail(s), kind)
         ELSE Select(Tail(s), kind)

NoTransaction == [Updates |-> <<>>, Inserts |-> <<>>, Deletes |-> <<>>]

Decode(data) ==
    [Updates |-> Flatten(Select(data, "Update")),
     Inserts |-> Flatten(Select(data, "Insert")),
     Deletes |-> Flatten(Select(data, "Delete"))]

\* variant: the error of Unmarshal dropped
Unmarshal_lenient(data) == [err |-> FALSE, txn |-> Decode(data)]

\* xml.Unmarshal(bodyBytes, &wfsTransaction): no document (EOF) and a
\* malformed document are errors; Updates, Inserts (their objects, in
\* order) and Deletes are collected by kind.
Unmarshal(data) ==
    IF data = <<>> \/ (\E i \in 1..Len(data) : data[i].kind = "Junk")
    THEN [err |-> TRUE, txn |-> NoTransaction]
    ELSE [err |-> FALSE, txn |-> Decode(data)]

\* A body stream is the bytes and the read position.
\* The body of the incoming request, nothing read yet.
RequestBody(bytes) == [data |-> bytes, pos |-> 0]

\* variant: the body left at its end after ReadAll
NewBuffer_spent(bytes) == [data |-> bytes, pos |-> Len(bytes)]

\* ioutil.NopCloser(bytes.NewBuffer(bodyBytes))
NewBuffer(bytes) == [data |-> bytes, pos |-> 0]

\* ioutil.ReadAll
ReadAll(stream) ==
    [bytes |-> SubSeq(stream.data, stream.pos + 1, Len(stream.data)),
     stream |-> [stream EXCEPT !.pos = Len(stream.data)]]

\* ------------------------------------------------- permission lookups
\* variant: a final return that grants everything
getLayerPermissions_open(typeName, cache, l2id, st, u) ==
    LET lname == Last(typeName)
        id == IF lname \in DOMAIN l2id THEN l2id[lname] ELSE ""
    IN IF id \in DOMAIN cache
       THEN [ret |-> cache[id], cache |-> cache, id |-> id, miss |-> FALSE,
             value |-> cache[id]]
       ELSE LET perm == UserLayerPermissions(st, u, id)
            IN [ret |-> Perm(TRUE, TRUE, TRUE, TRUE), cache |-> (id :> perm) @@ cache,
                id |-> id, miss |-> TRUE, value |-> perm]

\* getLayerPermissions: the closure of handleMapOws, with the variables it
\* captures (perms, layersData, settings, user) as parameters.  On a miss
\* the permission is computed and stored, and control falls through to the
\* final return.
getLayerPermissions(typeName, cache, l2id, st, u) ==
    LET lname == Last(typeName)
        id == IF lname \in DOMAIN l2id THEN l2id[lname] ELSE ""
    IN IF id \in DOMAIN cache
       THEN [ret |-> cache[id], cache |-> cache, id |-> id, miss |-> FALSE,
             value |-> cache[id]]
       ELSE LET perm == UserLayerPermissions(st, u, id)
            IN [ret |-> NoPermission, cache |-> (id :> perm) @@ cache,
                id |-> id, miss |-> TRUE, value |-> perm]

\* One authorization loop of handleMapOws over the names of one kind:
\* stops at the first name whose lookup lacks the flag.
RECURSIVE CheckOps(_, _, _, _, _, _, _)
CheckOps(names, flag, cache, log, l2id, st, u) ==
    IF names = <<>>
    THEN [denied |-> FALSE, cache |-> cache, log |-> log]
    ELSE LET r == getLayerPermissions(Head(names), cache, l2id, st, u)
             entry == [name |-> Head(names), id |-> r.id, ret |-> r.ret,
                       miss |-> r.miss, value |-> r.value]
         IN IF ~r.ret[flag]
            THEN [denied |-> TRUE, cache |-> r.cache, log |-> Append(log, entry)]
            ELSE CheckOps(Tail(names), flag, r.cache, Append(log, entry), l2id, st, u)

\* --------------------------------------------------------------- state
VARIABLES
    handler,        \* "ows" | "getmap": the handler serving the request
    pc,             \* position of the handler
    route,          \* c.Param("user"), c.Param("name")
    user,           \* s.auth.GetUser(c)
    query,          \* c.Request().URL.Query()
    sentQuery,      \* the query the client sent
    body,           \* c.Request().Body
    sent,           \* the bytes the client sent
    backend,        \* what the map server did with the proxied request
    params,         \* OwsRequestParams
    pInfo,
    settings,
    layersData,
    perms,          \* the request's permission cache
    txn,            \* wfsTransaction
    lookups,        \* history of getLayerPermissions calls
    did,            \* history of the service calls made
    upstreamCalls,  \* round trips to the map server
    outQuery,       \* query of the proxied request
    outBody,        \* body bytes the proxy read and sent
    ret,            \* what the handler returned
    status,         \* HTTP status the caller receives
    inHeader,       \* c.Request().Header
    outHeader,      \* header of the proxied request
    \* the file-changing handlers (handleUpload, handleDeleteProjectFiles,
    \* handleScriptUpload), one record per request in flight
    up,             \* request id -> the request's local state
    now,            \* time.Now(), in quarters of a second
    sink,           \* s.sws.AppChannel(): the messages sent, in order
    disk,           \* files materialized, as <<request, project, path>>
    inUpdate,       \* the requests inside s.projects.UpdateFiles
    scripts         \* project -> modules of the stored scripts registry

gatewayVars == <<handler, pc, route, user, query, sentQuery, body, sent, backend,
                 params, pInfo, settings, layersData, perms, txn, lookups, did,
                 upstreamCalls, outQuery, outBody, ret, status, inHeader, outHeader>>

filesVars == <<up, now, sink, disk, inUpdate, scripts>>

vars == <<gatewayVars, filesVars>>

NoMap == <<>>

MapParams == {<<"u1", "p1", ".qgs">>, <<"u1", "p2", ".qgs">>}

Queries ==
    [SERVICE : {<<"WFS">>, <<"wfs">>, <<"WMS">>},
     REQUEST : {<<>>, <<"Transaction">>},
     MAP : {<<>>} \cup {<<m>> : m \in MapParams}]

NoParams == [Service |-> "", Request |-> "", Map |-> NoMap]

NoQuery == [SERVICE |-> <<>>, REQUEST |-> <<>>, MAP |-> <<>>]

\* what the map server does with a request: answers 200, answers 500, or
\* cannot be reached
Backends == {"ok", "error", "unreachable"}

FirstOr(vals, default) == IF Len(vals) > 0 THEN vals[1] ELSE default

\* echo's DefaultBinder.BindQueryParams into OwsRequestParams
BindQueryParams(q) ==
    [Service |-> FirstOr(q.SERVICE, ""),
     Request |-> FirstOr(q.REQUEST, ""),
     Map |-> FirstOr(q.MAP, NoMap)]

\* echo's default HTTP error handler
ErrorStatus(err) ==
    CASE err = "ErrNotFound" -> 404
      [] err = "ErrUnauthorized" -> 401
      [] err = "BadRequest" -> 400
      [] OTHER -> 500

\* http.Header: name -> values.  A request without and one with a
\* User-Agent header.
NoHeader == [x \in {} |-> <<>>]

Headers == {NoHeader, "User-Agent" :> <<"curl/8">>}

\* variant: the header left as it came
director_asis(h) == h

\* director (the same in handleMapOws and handleGetMap), on the header
director(h) ==
    IF "User-Agent" \in DOMAIN h THEN h ELSE ("User-Agent" :> <<"">>) @@ h

\* no file-changing request in flight
FilesIdle ==
    /\ up = [r \in {} |-> 0]
    /\ now = 0
    /\ sink = <<>>
    /\ disk = {}
    /\ inUpdate = {}
    /\ scripts = [p \in {} |-> {}]

\* A request arrives at one of the two handlers.  handleGetMap reads
\* neither the body nor SERVICE and REQUEST, so its requests vary in the
\* route and the MAP parameter only.
Init ==
    /\ handler \in {"ows", "getmap"}
    /\ pc = "start"
    /\ route \in Routes
    /\ user \in Users
    /\ query \in Queries
    /\ sentQuery = query
    /\ sent \in Bodies
    /\ handler = "getmap" =>
          (sent = <<>> /\ query.SERVICE = <<"WMS">> /\ query.REQUEST = <<>>
              /\ user = "alice")
    /\ body = RequestBody(sent)
    /\ inHeader \in Headers
    /\ outHeader = NoHeader
    /\ FilesIdle
    /\ backend = "none"
    /\ params = NoParams
    /\ pInfo = NoInfo
    /\ settings = NoSettings
    /\ layersData = NoLayers
    /\ perms = EmptyMap
    /\ txn = NoTransaction
    /\ lookups = <<>>
    /\ did = {}
    /\ upstreamCalls = 0
    /\ outQuery = NoQuery
    /\ outBody = <<>>
    /\ ret = "none"
    /\ status = 0

Return(err) ==
    /\ pc' = "done"
    /\ ret' = err
    /\ status' = ErrorStatus(err)

\* -------------------------------------------------------- handleMapOws
OwsBind ==
    /\ handler = "ows" /\ pc = "start"
    /\ params' = BindQueryParams(query)
    /\ pc' = "info"
    /\ UNCHANGED <<filesVars, inHeader, outHeader, handler, route, user, sentQuery, query, body, sent, backend, pInfo,
                   settings, layersData, perms, txn, lookups, did,
                   upstreamCalls, outQuery, outBody, ret, status>>

\* variant: every error of GetProjectInfo returned as it is
OwsGetProjectInfo_anyErr ==
    /\ handler = "ows" /\ pc = "info"
    /\ LET r == GetProjectInfo(route)
       IN /\ did' = did \cup {"info"}
          /\ IF r.err # "nil"
             THEN /\ Return("error")
                  /\ UNCHANGED pInfo
             ELSE /\ pInfo' = r.info
                  /\ pc' = "settings"
                  /\ UNCHANGED <<ret, status>>
    /\ UNCHANGED <<filesVars, inHeader, outHeader, handler, route, user, sentQuery, query, body, sent, backend, params,
                   settings, layersData, perms, txn, lookups,
                   upstreamCalls, outQuery, outBody>>

OwsGetProjectInfo ==
    /\ handler = "ows" /\ pc = "info"
    /\ LET r == GetProjectInfo(route)
       IN /\ did' = did \cup {"info"}
          /\ IF r.err = "ErrProjectNotExists"
             THEN /\ Return("ErrNotFound")
                  /\ UNCHANGED pInfo
             ELSE /\ pInfo' = r.info
                  /\ pc' = "settings"
                  /\ UNCHANGED <<ret, status>>
    /\ UNCHANGED <<filesVars, inHeader, outHeader, handler, route, user, sentQuery, query, body, sent, backend, params,
                   settings, layersData, perms, txn, lookups,
                   upstreamCalls, outQuery, outBody>>

OwsGetSettings ==
    /\ handler = "ows" /\ pc = "settings"
    /\ LET r == GetSettings(route)
       IN /\ did' = did \cup {"settings"}
          /\ IF r.err # "nil"
             THEN /\ Return("error")
                  /\ UNCHANGED <<settings, perms>>
             ELSE /\ settings' = r.settings
                  /\ perms' = EmptyMap
                  /\ pc' = "gate"
                  /\ UNCHANGED <<ret, status>>
    /\ UNCHANGED <<filesVars, inHeader, outHeader, handler, route, user, sentQuery, query, body, sent, backend, params,
                   pInfo, layersData, txn, lookups, upstreamCalls,
                   outQuery, outBody>>

\* params.Service == "WFS" && params.Request == ""
IsTransactional(p) == p.Service = "WFS" /\ p.Request = ""

OwsGate ==
    /\ handler = "ows" /\ pc = "gate"
    /\ IF IsTransactional(params)
       THEN LET projectName == TrimSuffix(params.Map, Ext(params.Map))
                r == GetLayersData(projectName)
            IN /\ did' = did \cup {"layers"}
               /\ IF r.err # "nil"
                  THEN /\ Return("error")
                       /\ UNCHANGED layersData
                  ELSE /\ layersData' = r.l2id
                       /\ pc' = "parse"
                       /\ UNCHANGED <<ret, status>>
       ELSE /\ pc' = "rewrite"
            /\ UNCHANGED <<layersData, did, ret, status>>
    /\ UNCHANGED <<filesVars, inHeader, outHeader, handler, route, user, sentQuery, query, body, sent, backend, params,
                   pInfo, settings, perms, txn, lookups, upstreamCalls,
                   outQuery, outBody>>

OwsReadBody ==
    /\ handler = "ows" /\ pc = "parse"
    /\ LET rd == ReadAll(body)
           r == Unmarshal(rd.bytes)
       IN /\ body' = NewBuffer(rd.bytes)
          /\ did' = did \cup {"body"}
          /\ IF r.err
             THEN /\ Return("ParseError")
                  /\ UNCHANGED txn
             ELSE /\ txn' = r.txn
                  /\ pc' = "updates"
                  /\ UNCHANGED <<ret, status>>
    /\ UNCHANGED <<filesVars, inHeader, outHeader, handler, route, user, sentQuery, query, sent, backend, params, pInfo,
                   settings, layersData, perms, lookups, upstreamCalls,
                   outQuery, outBody>>

OwsCheck(at, names, flag, next) ==
    /\ handler = "ows" /\ pc = at
    /\ LET r == CheckOps(names, flag, perms, lookups, layersData, settings, user)
       IN /\ perms' = r.cache
          /\ lookups' = r.log
          /\ IF r.denied
             THEN Return("ErrUnauthorized")
             ELSE /\ pc' = next
                  /\ UNCHANGED <<ret, status>>
    /\ UNCHANGED <<filesVars, inHeader, outHeader, handler, route, user, sentQuery, query, body, sent, backend, params,
                   pInfo, settings, layersData, txn, did, upstreamCalls,
                   outQuery, outBody>>

OwsCheckUpdates == OwsCheck("updates", txn.Updates, "Update", "inserts")

OwsCheckInserts == OwsCheck("inserts", txn.Inserts, "Insert", "deletes")

OwsCheckDeletes == OwsCheck("deletes", txn.Deletes, "Delete", "rewrite")

OwsRewrite ==
    /\ handler = "ows" /\ pc = "rewrite"
    /\ query' = QuerySet(query, "MAP", OwsProjectPath(route, pInfo.QgisFile))
    /\ pc' = "proxy"
    /\ UNCHANGED <<filesVars, inHeader, outHeader, handler, route, user, sentQuery, body, sent, backend, params, pInfo,
                   settings, layersData, perms, txn, lookups, did,
                   upstreamCalls, outQuery, outBody, ret, status>>

\* What the proxy's error handler writes when the round trip fails:
\* handleMapOws leaves httputil's default (502 Bad Gateway), handleGetMap
\* installs one that only logs (0: nothing written).
ErrorHandlerStatus(h) == IF h = "getmap" THEN 0 ELSE 502

\* net/http answers 200 when the handler returns without writing a status
Written(st) == IF st = 0 THEN 200 ELSE st

\* reverseProxy.ServeHTTP(c.Response(), c.Request()); return nil
ServeHTTP ==
    /\ upstreamCalls' = upstreamCalls + 1
    /\ outQuery' = query
    /\ outHeader' = director(inHeader)
    /\ LET rd == ReadAll(body)
       IN /\ outBody' = rd.bytes
          /\ body' = rd.stream
    /\ ret' = "nil"
    /\ \E b \in Backends :
          /\ backend' = b
          /\ status' = Written(CASE b = "ok" -> 200
                                 [] b = "error" -> 500
                                 [] OTHER -> ErrorHandlerStatus(handler))
    /\ pc' = "done"

OwsProxy ==
    /\ handler = "ows" /\ pc = "proxy"
    /\ ServeHTTP
    /\ UNCHANGED <<filesVars, inHeader, handler, route, user, sentQuery, query, sent, params, pInfo,
                   settings, layersData, perms, txn, lookups, did>>

\* -------------------------------------------------------- handleGetMap
GetMapGetProjectInfo ==
    /\ handler = "getmap" /\ pc = "start"
    /\ LET r == GetProjectInfo(route)
       IN /\ did' = did \cup {"info"}
          /\ IF r.err = "ErrProjectNotExists"
             THEN /\ Return("BadRequest")
                  /\ UNCHANGED pInfo
             ELSE /\ pInfo' = r.info
                  /\ pc' = "rewrite"
                  /\ UNCHANGED <<ret, status>>
    /\ UNCHANGED <<filesVars, inHeader, outHeader, handler, route, user, sentQuery, query, body, sent, backend, params,
                   settings, layersData, perms, txn, lookups,
                   upstreamCalls, outQuery, outBody>>

GetMapRewrite ==
    /\ handler = "getmap" /\ pc = "rewrite"
    /\ query' = QuerySet(query, "MAP", OwsProjectPath(route, pInfo.QgisFile))
    /\ pc' = "proxy"
    /\ UNCHANGED <<filesVars, inHeader, outHeader, handler, route, user, sentQuery, body, sent, backend, params, pInfo,
                   settings, layersData, perms, txn, lookups, did,
                   upstreamCalls, outQuery, outBody, ret, status>>

GetMapProxy ==
    /\ handler = "getmap" /\ pc = "proxy"
    /\ ServeHTTP
    /\ UNCHANGED <<filesVars, inHeader, handler, route, user, sentQuery, query, sent, params, pInfo,
                   settings, layersData, perms, txn, lookups, did>>

Next ==
    \/ OwsBind
    \/ OwsGetProjectInfo
    \/ OwsGetSettings
    \/ OwsGate
    \/ OwsReadBody
    \/ OwsCheckUpdates
    \/ OwsCheckInserts
    \/ OwsCheckDeletes
    \/ OwsRewrite
    \/ OwsProxy
    \/ GetMapGetProjectInfo
    \/ GetMapRewrite
    \/ GetMapProxy

Spec == Init /\ [][Next]_vars

\* ============================================================ uploads
\* The file-changing handlers of settings.go.  A request is a record of
\* up; s.projects.UpdateFiles is the loop that pulls files from the
\* provider it is given and materializes each once it is read to its end.
MaxParts == 2       \* content parts of one upload, after the metadata part
MaxTime == 3        \* the clock stops here

\* const MB
MB == 1024 * 1024

\* ProgressReader.Step of handleUpload
Step == 32 * 1024

\* MaxProjectSize of handleUpload
MaxProjectSize == 100 * MB

\* the 0.5 s of the throttle, in quarters of a second
HalfSecond == 2

\* part.FormName(): the path of the file in the project
FieldNames == {<<"a.qgs">>, <<"b.gpkg">>}

PartSizes == {Step \div 2, Step + Step \div 2, 60 * MB}

Parts == [name : FieldNames, size : PartSizes]

NoProgress == [x \in {} |-> 0]

Min(a, b) == IF a < b THEN a ELSE b

\* The sizes one Read may return when k bytes can be read: half a step at
\* a time or all of them (large remainders are read in one piece).
ReadSizes(k) == IF k > 2 * Step THEN {k} ELSE {k} \cup ({Step \div 2} \cap 1..k)

\* a message handed to s.sws.AppChannel().Send(user.Username, "UploadProgress", ...)
Snapshot(r, rec, payload, final, t) ==
    [req |-> r, user |-> rec.user, payload |-> payload, final |-> final, at |-> t]

\* variant: the map reset on every callback
Callback_reset(r, rec, name, p, t) ==
    LET m == (name :> p) @@ rec.uploadProgress
    IN IF t - rec.lastNotification > HalfSecond
       THEN [rec |-> [rec EXCEPT !.uploadProgress = NoProgress,
                                 !.lastNotification = t,
                                 !.calls = Append(@, [name |-> name, p |-> p])],
             msgs |-> <<Snapshot(r, rec, m, FALSE, t)>>]
       ELSE [rec |-> [rec EXCEPT !.uploadProgress = NoProgress,
                                 !.calls = Append(@, [name |-> name, p |-> p])],
             msgs |-> <<>>]

\* ProgressReader.Callback of handleUpload.nextFile, called with p at time t
Callback(r, rec, name, p, t) ==
    LET m == (name :> p) @@ rec.uploadProgress
    IN IF t - rec.lastNotification > HalfSecond
       THEN [rec |-> [rec EXCEPT !.uploadProgress = NoProgress,
                                 !.lastNotification = t,
                                 !.calls = Append(@, [name |-> name, p |-> p])],
             msgs |-> <<Snapshot(r, rec, m, FALSE, t)>>]
       ELSE [rec |-> [rec EXCEPT !.uploadProgress = m,
                                 !.calls = Append(@, [name |-> name, p |-> p])],
             msgs |-> <<>>]

\* variant: the progress set to the last chunk
ProgressRead_last(r, rec, name, n, eof, t) ==
    LET progress == n
        rec1 == [rec EXCEPT !.progress = progress, !.bodyRead = @ + n]
    IN IF progress - rec.lastVal >= Step \/ eof
       THEN LET c == Callback(r, rec1, name, progress, t)
            IN [rec |-> [c.rec EXCEPT !.lastVal = progress], msgs |-> c.msgs]
       ELSE [rec |-> rec1, msgs |-> <<>>]

\* ProgressReader.Read when the wrapped reader returns (n, eof)
ProgressRead(r, rec, name, n, eof, t) ==
    LET progress == rec.progress + n
        rec1 == [rec EXCEPT !.progress = progress, !.bodyRead = @ + n]
    IN IF progress - rec.lastVal >= Step \/ eof
       THEN LET c == Callback(r, rec1, name, progress, t)
            IN [rec |-> [c.rec EXCEPT !.lastVal = progress], msgs |-> c.msgs]
       ELSE [rec |-> rec1, msgs |-> <<>>]

\* variant: the last snapshot throttled like the others
EndOfParts_throttled(r, rec, t) ==
    IF t - rec.lastNotification > HalfSecond
    THEN <<Snapshot(r, rec, rec.uploadProgress, TRUE, t)>>
    ELSE <<>>

\* nextFile of handleUpload when reader.NextPart() returns io.EOF
EndOfParts(r, rec, t) == <<Snapshot(r, rec, rec.uploadProgress, TRUE, t)>>

\* s.projects.UpdateFiles returns: the provider's end of sequence ends the
\* call without an error, any other error of the provider ends it with it
UpdateFilesReturn(err) == IF err = "EOF" THEN "nil" ELSE err

\* s.projects.UpdateFiles has read a file of the provider to its end: the
\* file is written under the project
SaveFile(d, r, project, path) == d \cup {<<r, project, path>>}

\* the state of a request before its handler runs
NewRequest(kind, user_, super, project, parts) ==
    [kind |-> kind, pc |-> "start", user |-> user_, super |-> super,
     project |-> project, parts |-> parts, cur |-> 0, progress |-> 0,
     lastVal |-> 0, uploadProgress |-> NoProgress, lastNotification |-> 0,
     started |-> 0, bodyRead |-> 0, calls |-> <<>>, ret |-> "none",
     files |-> <<>>, filesMeta |-> <<>>, findex |-> 0, module |-> "",
     local |-> {},
     yields |-> <<>>]

\* the part of Init that is not about the file-changing handlers
GatewayIdle ==
    /\ handler = "ows" /\ pc = "done" /\ route = PNone /\ user = "guest"
    /\ query = NoQuery /\ sentQuery = NoQuery /\ sent = <<>>
    /\ body = RequestBody(<<>>) /\ backend = "none" /\ params = NoParams
    /\ pInfo = NoInfo /\ settings = NoSettings /\ layersData = NoLayers
    /\ perms = EmptyMap /\ txn = NoTransaction /\ lookups = <<>> /\ did = {}
    /\ upstreamCalls = 0 /\ outQuery = NoQuery /\ outBody = <<>>
    /\ ret = "none" /\ status = 0 /\ inHeader = NoHeader /\ outHeader = NoHeader

\* handleUpload up to the call of UpdateFiles: the content type, the user,
\* the body limit and the metadata part
UploadStart(r) ==
    /\ up[r].kind = "upload" /\ up[r].pc = "start"
    /\ \E ok \in BOOLEAN :
          IF ok
          THEN /\ up' = [up EXCEPT ![r].pc = "next",
                                   ![r].lastNotification = now,
                                   ![r].started = now]
               /\ inUpdate' = inUpdate \cup {r}
          ELSE /\ up' = [up EXCEPT ![r].pc = "done", ![r].ret = "BadRequest"]
               /\ UNCHANGED inUpdate
    /\ UNCHANGED <<gatewayVars, now, sink, disk, scripts>>

\* UpdateFiles asks the provider of handleUpload for the next file
UploadNextFile(r) ==
    /\ up[r].kind = "upload" /\ up[r].pc = "next"
    /\ IF up[r].cur = Len(up[r].parts)
       THEN /\ sink' = sink \o EndOfParts(r, up[r], now)
            /\ up' = [up EXCEPT ![r].pc = "done",
                                ![r].ret = UpdateFilesReturn("EOF")]
            /\ inUpdate' = inUpdate \ {r}
       ELSE /\ up' = [up EXCEPT ![r].pc = "copy", ![r].cur = @ + 1,
                                ![r].progress = 0, ![r].lastVal = 0]
            /\ UNCHANGED <<sink, inUpdate>>
    /\ UNCHANGED <<gatewayVars, now, disk, scripts>>

\* UpdateFiles reads from the ProgressReader of the current part; the
\* body of a user who is not a superuser ends in an error at MaxProjectSize
UploadRead(r) ==
    /\ up[r].kind = "upload" /\ up[r].pc = "copy"
    /\ LET rec == up[r]
           part == rec.parts[rec.cur]
           rem == part.size - rec.progress
           allowed == IF rec.super THEN rem
                      ELSE Min(rem, MaxProjectSize - rec.bodyRead)
       IN IF rem > 0 /\ allowed = 0
          THEN /\ up' = [up EXCEPT ![r].pc = "done",
                                   ![r].ret = UpdateFilesReturn("error")]
               /\ inUpdate' = inUpdate \ {r}
               /\ UNCHANGED <<sink, disk>>
          ELSE \E n \in (IF rem = 0 THEN {0} ELSE ReadSizes(allowed)) :
               \E eof \in (IF n = rem THEN (IF n = 0 THEN {TRUE} ELSE BOOLEAN)
                           ELSE {FALSE}) :
                  LET rd == ProgressRead(r, rec, part.name, n, eof, now)
                  IN /\ sink' = sink \o rd.msgs
                     /\ IF eof
                        THEN /\ up' = [up EXCEPT ![r] = [rd.rec EXCEPT !.pc = "next"]]
                             /\ disk' = SaveFile(disk, r, rec.project, part.name)
                        ELSE /\ up' = [up EXCEPT ![r] = rd.rec]
                             /\ UNCHANGED disk
                     /\ UNCHANGED inUpdate
    /\ UNCHANGED <<gatewayVars, now, scripts>>

Tick ==
    /\ now < MaxTime
    /\ now' = now + 1
    /\ UNCHANGED <<gatewayVars, up, sink, disk, inUpdate, scripts>>

\* One upload by one user.
InitUpload ==
    /\ GatewayIdle
    /\ \E super \in BOOLEAN, parts \in SeqsUpTo(Parts, MaxParts) :
          up = [r \in {"r1"} |-> NewRequest("upload", "alice", super, P1, parts)]
    /\ now = 0
    /\ sink = <<>>
    /\ disk = {}
    /\ inUpdate = {}
    /\ scripts = [p \in {P1, P2} |-> {}]

NextUpload ==
    \/ \E r \in DOMAIN up : UploadStart(r)
    \/ \E r \in DOMAIN up : UploadNextFile(r)
    \/ \E r \in DOMAIN up : UploadRead(r)
    \/ Tick

SpecUpload == InitUpload /\ [][NextUpload]_vars

\* ------------------------------------------------------------ claims
Done == pc = "done"

Forwarded == upstreamCalls > 0

OpKinds == {"Update", "Insert", "Delete"}

\* the type names of the operations of one kind in a document
NamesOf(data, kind) ==
    UNION {{data[i].names[j] : j \in 1..Len(data[i].names)} :
             i \in {k \in 1..Len(data) : data[k].kind = kind}}

WellFormed(data) == data # <<>> /\ \A i \in 1..Len(data) : data[i].kind # "Junk"

\* The permission the settings of the addressed project give the user on
\* the layer a type name refers to.
Granted(typeName) ==
    LET l2id == LayerNameToID(route)
        lname == typeName[Len(typeName)]
    IN IF lname \in DOMAIN l2id /\ l2id[lname] \in DOMAIN ProjectSettings(route)[user]
       THEN ProjectSettings(route)[user][l2id[lname]]
       ELSE Perm(FALSE, FALSE, FALSE, FALSE)

LacksPermission(data) ==
    \E kind \in OpKinds : \E n \in NamesOf(data, kind) : ~Granted(n)[kind]

AllGranted(data) ==
    \A kind \in OpKinds : \A n \in NamesOf(data, kind) : Granted(n)[kind]

\* the request addresses a project with settings and its MAP parameter
\* names that project's file, so that every load of the handler succeeds
Loadable ==
    /\ route \in {P1, P2}
    /\ sentQuery.MAP = <<route \o <<".qgs">>>>

\* C1: a request to handleMapOws whose body is a transaction with an
\* operation on a layer the user lacks the permission for is answered with
\* the authorization error and never reaches the map server, whatever the
\* SERVICE and REQUEST parameters are.  (Stated for loadable requests.)
C1_Claim ==
    (handler = "ows" /\ Done /\ Loadable /\ WellFormed(sent) /\ LacksPermission(sent))
        => (ret = "ErrUnauthorized" /\ upstreamCalls = 0)

\* C2: a WFS transaction request all of whose operations are on layers
\* that grant the needed flag is not answered with the authorization
\* error and is forwarded to the map server exactly once.
C2_Claim ==
    (/\ handler = "ows" /\ Done /\ Loadable
     /\ sentQuery.SERVICE = <<"WFS">> /\ sentQuery.REQUEST = <<>>
     /\ WellFormed(sent) /\ AllGranted(sent))
        => (ret # "ErrUnauthorized" /\ upstreamCalls = 1)

\* C3: within a request the permission of a layer id is computed at most
\* once, and every lookup of the id, the first included, returns the
\* computed value.
C3_Claim ==
    /\ \A i \in 1..Len(lookups) :
          lookups[i].ret = UserLayerPermissions(settings, user, lookups[i].id)
    /\ \A i, j \in 1..Len(lookups) :
          (lookups[i].miss /\ lookups[j].miss /\ lookups[i].id = lookups[j].id) => i = j

UnknownLayer(typeName) == typeName[Len(typeName)] \notin DOMAIN layersData

\* C4: every lookup of a type name whose last part is not in the layer
\* name mapping returns the all-false permission, and a transaction with
\* an operation on such a layer is denied and not forwarded.
C4_UnknownLayerDenied ==
    /\ \A i \in 1..Len(lookups) :
          UnknownLayer(lookups[i].name)
             => lookups[i].ret = Perm(FALSE, FALSE, FALSE, FALSE)
    /\ (/\ handler = "ows" /\ Done /\ "body" \in did /\ WellFormed(sent)
        /\ \E kind \in OpKinds : \E n \in NamesOf(sent, kind) : UnknownLayer(n))
          => (ret = "ErrUnauthorized" /\ upstreamCalls = 0)

C4_Witness ==
    /\ handler = "ows" /\ Done /\ ret = "ErrUnauthorized"
    /\ \E i \in 1..Len(lookups) : UnknownLayer(lookups[i].name)

\* C5: handleMapOws rejects every request for a project that is not
\* published (empty or draft) and does not forward it.
C5_Claim ==
    (handler = "ows" /\ Done /\ ProjectInfo(route).State \in {"empty", "draft"})
        => (ret # "nil" /\ upstreamCalls = 0)

\* C6: once handleMapOws has read a transactional body that does not
\* parse, the request is over with an error and was not forwarded.
C6_ParseErrorNotForwarded ==
    (handler = "ows" /\ "body" \in did /\ ~WellFormed(sent))
        => (Done /\ ret = "ParseError" /\ status >= 400 /\ upstreamCalls = 0)

C6_Witness ==
    /\ handler = "ows" /\ Done /\ "body" \in did
    /\ sent # <<>> /\ ~WellFormed(sent) /\ ret = "ParseError"

\* C7: for a transactional request that passes authorization and is
\* forwarded, the body bytes the proxy reads are the bytes the client sent.
C7_BodyIntact ==
    (handler = "ows" /\ Done /\ "body" \in did /\ Forwarded) => outBody = sent

C7_Witness ==
    /\ handler = "ows" /\ Done /\ "body" \in did /\ Forwarded
    /\ Len(sent) > 1 /\ outBody = sent

\* C8: the MAP parameter of every request forwarded by handleMapOws or
\* handleGetMap is exactly /publish/<user>/<name>/<QgisFile> of the
\* addressed project, whatever MAP the client sent.
C8_MapRewritten ==
    (Done /\ Forwarded)
        => outQuery.MAP = <<(<<"/", "publish">> \o route) \o ProjectInfo(route).QgisFile>>

C8_Witness ==
    /\ Done /\ Forwarded /\ handler = "getmap"
    /\ sentQuery.MAP # <<>> /\ sentQuery.MAP # outQuery.MAP
    /\ Len(outQuery.MAP) = 1

\* C9: for a project that does not exist handleMapOws makes no call but
\* the project info lookup (no settings, no layer data, no body read, no
\* permission lookup, no round trip) and returns NotFound.
C9_NotFoundFirst ==
    (handler = "ows" /\ route \notin Projects)
        => /\ did \subseteq {"info"}
           /\ lookups = <<>>
           /\ body.pos = 0
           /\ upstreamCalls = 0
           /\ pc \in {"start", "info", "done"}
           /\ Done => (ret = "ErrNotFound" /\ status = 404)

C9_Witness ==
    handler = "ows" /\ Done /\ route \notin Projects /\ ret = "ErrNotFound"

\* C10: when the map server cannot be reached, the caller of either proxy
\* handler gets an error status, and the map server was tried only once.
C10_Claim ==
    (Done /\ Forwarded /\ backend = "unreachable")
        => (status >= 400 /\ upstreamCalls <= 1)

\* C17: a forwarded request that came without a User-Agent header goes
\* out with User-Agent set to the empty string, and one that came with a
\* User-Agent header goes out with that header unchanged.
C17_UserAgent ==
    (Done /\ Forwarded)
        => /\ "User-Agent" \in DOMAIN outHeader
           /\ outHeader["User-Agent"] =
                 IF "User-Agent" \in DOMAIN inHeader
                 THEN inHeader["User-Agent"] ELSE <<"">>

C17_Witness ==
    /\ Done /\ Forwarded /\ handler = "ows"
    /\ "User-Agent" \notin DOMAIN inHeader
    /\ outHeader["User-Agent"] = <<"">>

\* C20: the layer name mapping handleMapOws authorizes a transaction with
\* is the one of the project the route addresses, whatever MAP the client
\* sent.
C20_Claim ==
    (handler = "ows" /\ "body" \in did)
        => layersData = (CASE route = P1 -> LayerNameToID(P1)
                           [] route = P2 -> LayerNameToID(P2)
                           [] OTHER -> LayerNameToID(P3))

\* ============================================================ deletes
\* handleDeleteProjectFiles up to the call of UpdateFiles
DeleteStart(r) ==
    /\ up[r].kind = "delete" /\ up[r].pc = "start"
    /\ IF Len(up[r].files) < 1
       THEN /\ up' = [up EXCEPT ![r].pc = "done", ![r].ret = "BadRequest"]
            /\ UNCHANGED inUpdate
       ELSE /\ up' = [up EXCEPT ![r].pc = "removing"]
            /\ inUpdate' = inUpdate \cup {r}
    /\ UNCHANGED <<gatewayVars, now, sink, disk, scripts>>

\* s.projects.UpdateFiles with Removes and no provider: the files named
\* are removed from the project
RemoveFiles(d, project, paths) ==
    {f \in d : ~(f[2] = project /\ \E i \in 1..Len(paths) : paths[i] = f[3])}

\* UpdateFiles of handleDeleteProjectFiles returns
DeleteFiles(r) ==
    /\ up[r].kind = "delete" /\ up[r].pc = "removing"
    /\ disk' = RemoveFiles(disk, up[r].project, up[r].files)
    /\ up' = [up EXCEPT ![r].pc = "done", ![r].ret = "nil"]
    /\ inUpdate' = inUpdate \ {r}
    /\ UNCHANGED <<gatewayVars, now, sink, scripts>>

\* ============================================================ scripts
MaxFiles == 2       \* files of one script upload
MaxCalls == 4       \* calls of the provider that are followed

FileHandles == {"fh1", "fh2", "fh3"}

\* multipart.FileHeader.Filename: two files of a form may have one name
Filename(fh) == IF fh = "fh2" THEN "b.js" ELSE "a.js"

Modules == {"m1", "m2"}

\* the loop over form.File of handleScriptUpload
FilesMeta(files) ==
    [i \in 1..Len(files) |-> [Path |-> <<"web", "components", Filename(files[i])>>]]

\* the sequences of different files of at most n files
FileLists(n) ==
    {fs \in SeqsUpTo(FileHandles, n) :
        \A i, j \in 1..Len(fs) : fs[i] = fs[j] => i = j}

\* variant: findex advanced before the file is opened
nextFile_eager(findex, files, filesMeta, openOk) ==
    IF findex >= Len(files) \/ findex >= Len(filesMeta)
    THEN [path |-> <<>>, file |-> "", err |-> "EOF", findex |-> findex]
    ELSE IF ~openOk
    THEN [path |-> <<>>, file |-> "", err |-> "error", findex |-> findex + 1]
    ELSE [path |-> filesMeta[findex + 1].Path, file |-> files[findex + 1],
          err |-> "nil", findex |-> findex + 1]

\* nextFile of handleScriptUpload, with the value of findex it leaves;
\* openOk is whether f.Open() succeeds (Go indexes from 0)
nextFile(findex, files, filesMeta, openOk) ==
    IF findex >= Len(files) \/ findex >= Len(filesMeta)
    THEN [path |-> <<>>, file |-> "", err |-> "EOF", findex |-> findex]
    ELSE IF ~openOk
    THEN [path |-> <<>>, file |-> "", err |-> "error", findex |-> findex]
    ELSE [path |-> filesMeta[findex + 1].Path, file |-> files[findex + 1],
          err |-> "nil", findex |-> findex + 1]

NewScript(user_, project, module, files) ==
    [NewRequest("script", user_, FALSE, project, <<>>) EXCEPT
        !.module = module, !.files = files]

\* handleScriptUpload up to the call of UpdateFiles
ScriptStart(r) ==
    /\ up[r].kind = "script" /\ up[r].pc = "start"
    /\ \E ok \in BOOLEAN :
          IF ok /\ up[r].module # ""
          THEN /\ up' = [up EXCEPT ![r].pc = "next",
                                   ![r].filesMeta = FilesMeta(up[r].files),
                                   ![r].findex = 0]
               /\ inUpdate' = inUpdate \cup {r}
          ELSE /\ up' = [up EXCEPT ![r].pc = "done", ![r].ret = "BadRequest"]
               /\ UNCHANGED inUpdate
    /\ UNCHANGED <<gatewayVars, now, sink, disk, scripts>>

\* UpdateFiles asks the provider of handleScriptUpload for the next file
\* and writes it
ScriptNextFile(r) ==
    /\ up[r].kind = "script" /\ up[r].pc = "next"
    /\ \E openOk \in BOOLEAN :
          LET y == nextFile(up[r].findex, up[r].files, up[r].filesMeta, openOk)
          IN IF y.err = "nil"
             THEN /\ up' = [up EXCEPT ![r].findex = y.findex]
                  /\ disk' = SaveFile(disk, r, up[r].project, y.path)
                  /\ UNCHANGED inUpdate
             ELSE /\ up' = [up EXCEPT
                                ![r].pc = IF y.err = "EOF" THEN "getscripts" ELSE "done",
                                ![r].ret = IF y.err = "EOF" THEN @
                                           ELSE UpdateFilesReturn(y.err)]
                  /\ inUpdate' = inUpdate \ {r}
                  /\ UNCHANGED disk
    /\ UNCHANGED <<gatewayVars, now, sink, scripts>>

\* s.projects.GetScripts: the stored registry of the project (its modules)
GetScripts(project) == scripts[project]

\* handleScriptUpload from GetScripts to scripts[info.Module] = ...
ScriptGetScripts(r) ==
    /\ up[r].kind = "script" /\ up[r].pc = "getscripts"
    /\ up' = [up EXCEPT ![r].pc = "putscripts",
                        ![r].local = GetScripts(up[r].project) \cup {up[r].module}]
    /\ UNCHANGED <<gatewayVars, now, sink, disk, inUpdate, scripts>>

\* handleScriptUpload: s.projects.UpdateScripts and the response
ScriptUpdateScripts(r) ==
    /\ up[r].kind = "script" /\ up[r].pc = "putscripts"
    /\ scripts' = [scripts EXCEPT ![up[r].project] = up[r].local]
    /\ up' = [up EXCEPT ![r].pc = "done", ![r].ret = "nil"]
    /\ UNCHANGED <<gatewayVars, now, sink, disk, inUpdate>>

\* One call of the provider of handleScriptUpload, by any caller.
ProviderCall(r) ==
    /\ up[r].kind = "script" /\ up[r].pc = "provider"
    /\ Len(up[r].yields) < MaxCalls
    /\ \E openOk \in BOOLEAN :
          LET y == nextFile(up[r].findex, up[r].files, up[r].filesMeta, openOk)
          IN up' = [up EXCEPT
                       ![r].findex = y.findex,
                       ![r].yields = Append(@, [before |-> up[r].findex,
                                                after |-> y.findex, err |-> y.err,
                                                path |-> y.path, file |-> y.file])]
    /\ UNCHANGED <<gatewayVars, now, sink, disk, inUpdate, scripts>>

\* The provider of one script upload, called again and again.
InitScript ==
    /\ GatewayIdle
    /\ \E files \in FileLists(MaxFiles), m \in Modules :
          up = [r \in {"r1"} |->
                   [NewScript("alice", P1, m, files) EXCEPT
                       !.pc = "provider", !.filesMeta = FilesMeta(files)]]
    /\ now = 0
    /\ sink = <<>>
    /\ disk = {}
    /\ inUpdate = {}
    /\ scripts = [p \in {P1, P2} |-> {}]

NextScript == \E r \in DOMAIN up : ProviderCall(r)

SpecScript == InitScript /\ [][NextScript]_vars

\* ============================================================ concurrency
\* echo serves every request in a goroutine of its own: the steps of two
\* requests interleave.
ConcRequests ==
    {NewRequest("upload", "alice", TRUE, p,
                <<[name |-> <<"a.qgs">>, size |-> Step + Step \div 2]>>) : p \in {P1, P2}}
    \cup {[NewRequest("delete", "alice", FALSE, P1, <<>>) EXCEPT !.files = fs] :
             fs \in {<<>>, << <<"a.qgs">> >>}}
    \cup {NewScript("alice", P1, m, <<"fh1">>) : m \in Modules}

InitConc ==
    /\ GatewayIdle
    /\ up \in [{"r1", "r2"} -> ConcRequests]
    /\ now = 0
    /\ sink = <<>>
    /\ disk = {}
    /\ inUpdate = {}
    /\ scripts = [p \in {P1, P2} |-> {}]

NextConc ==
    \/ \E r \in DOMAIN up : UploadStart(r)
    \/ \E r \in DOMAIN up : UploadNextFile(r)
    \/ \E r \in DOMAIN up : UploadRead(r)
    \/ \E r \in DOMAIN up : DeleteStart(r)
    \/ \E r \in DOMAIN up : DeleteFiles(r)
    \/ \E r \in DOMAIN up : ScriptStart(r)
    \/ \E r \in DOMAIN up : ScriptNextFile(r)
    \/ \E r \in DOMAIN up : ScriptGetScripts(r)
    \/ \E r \in DOMAIN up : ScriptUpdateScripts(r)
    \/ Tick

SpecConc == InitConc /\ [][NextConc]_vars

\* ------------------------------------------------------------ uploads
IsUpload(r) == up[r].kind = "upload"

\* the upload read every part to its end and the parts then ended
Completed(r) == IsUpload(r) /\ up[r].pc = "done" /\ up[r].ret = "nil"

SnapshotsOf(r) == SelectSeq(sink, LAMBDA m : m.req = r)

RECURSIVE DeclaredTotal(_)
\* the sum of the sizes the metadata lists (the client declares the true sizes)
DeclaredTotal(parts) ==
    IF parts = <<>> THEN 0 ELSE Head(parts).size + DeclaredTotal(Tail(parts))

NoRepeat(parts) ==
    \A i, j \in 1..Len(parts) : parts[i].name = parts[j].name => i = j

LastOfName(parts, i) ==
    \A j \in (i + 1)..Len(parts) : parts[j].name # parts[i].name

\* a snapshot sent to the user of r holds v for the field
Reported(r, name, v) ==
    \E k \in 1..Len(sink) :
        /\ sink[k].req = r /\ sink[k].user = up[r].user
        /\ name \in DOMAIN sink[k].payload
        /\ sink[k].payload[name] = v

\* C11: an upload of a user who is not a superuser whose declared total
\* exceeds MaxProjectSize ends with an error and none of its files was
\* written at any time.
C11_Claim ==
    \A r \in DOMAIN up :
        (IsUpload(r) /\ ~up[r].super /\ DeclaredTotal(up[r].parts) > MaxProjectSize)
            => /\ \A f \in disk : f[1] # r
               /\ up[r].pc = "done" => up[r].ret # "nil"

\* C12 as stated: after a completed upload every part's field name was
\* sent in some snapshot with the part's total size.
C12_Claim ==
    \A r \in DOMAIN up :
        Completed(r) =>
            \A i \in 1..Len(up[r].parts) :
                Reported(r, up[r].parts[i].name, up[r].parts[i].size)

\* C12: after a completed upload every part whose field name is not used
\* again by a later part was sent in some snapshot to the uploading user
\* with the part's total size.
C12_LastReported ==
    \A r \in DOMAIN up :
        Completed(r) =>
            \A i \in 1..Len(up[r].parts) :
                LastOfName(up[r].parts, i)
                    => Reported(r, up[r].parts[i].name, up[r].parts[i].size)

C12_Witness ==
    /\ Completed("r1")
    /\ Len(up["r1"].parts) = 2
    /\ up["r1"].parts[1].name # up["r1"].parts[2].name
    /\ \E k \in 1..Len(sink) :
          /\ ~sink[k].final
          /\ up["r1"].parts[1].name \in DOMAIN sink[k].payload
          /\ sink[k].payload[up["r1"].parts[1].name] = up["r1"].parts[1].size
    /\ Reported("r1", up["r1"].parts[2].name, up["r1"].parts[2].size)

\* C13: a completed upload has sent exactly one final snapshot, after all
\* its throttled snapshots and whatever the time since the last of them;
\* an upload that has not reached the end of its parts has sent none.
C13_FinalSnapshot ==
    \A r \in DOMAIN up :
        IsUpload(r) =>
            LET s == SnapshotsOf(r)
                finals == {k \in 1..Len(s) : s[k].final}
            IN IF Completed(r) THEN finals = {Len(s)} ELSE finals = {}

C13_Witness ==
    /\ Completed("r1")
    /\ LET s == SnapshotsOf("r1")
       IN /\ Len(s) >= 2
          /\ ~s[Len(s) - 1].final
          /\ s[Len(s)].at - s[Len(s) - 1].at <= HalfSecond

CallsMonotone(r) ==
    \A i, j \in 1..Len(up[r].calls) :
        (i < j /\ up[r].calls[i].name = up[r].calls[j].name)
            => up[r].calls[i].p <= up[r].calls[j].p

SentMonotone(r) ==
    LET s == SnapshotsOf(r)
    IN \A i, j \in 1..Len(s) :
          i < j => \A n \in DOMAIN s[i].payload \cap DOMAIN s[j].payload :
                      s[i].payload[n] <= s[j].payload[n]

\* C15 as stated: the values of a field never decrease, whatever the parts.
C15_Claim ==
    \A r \in DOMAIN up : IsUpload(r) => CallsMonotone(r) /\ SentMonotone(r)

\* C15: in an upload whose parts do not repeat a field name, the values a
\* field takes in the callbacks and in the snapshots sent never decrease.
C15_Monotone ==
    \A r \in DOMAIN up :
        (IsUpload(r) /\ NoRepeat(up[r].parts))
            => CallsMonotone(r) /\ SentMonotone(r)

C15_Witness ==
    /\ IsUpload("r1") /\ NoRepeat(up["r1"].parts)
    /\ \E i, j \in 1..Len(up["r1"].calls) :
          /\ i < j
          /\ up["r1"].calls[i].name = up["r1"].calls[j].name
          /\ up["r1"].calls[i].p < up["r1"].calls[j].p
    /\ \E k \in 1..Len(sink) : ~sink[k].final

\* ------------------------------------------------------------ concurrency
\* C14: two snapshots that are not final and go to one user are at least
\* 0.5 s apart, and none is sent within 0.5 s of the start of its request.
C14_Claim ==
    /\ \A i, j \in 1..Len(sink) :
          (i < j /\ ~sink[i].final /\ ~sink[j].final /\ sink[i].user = sink[j].user)
              => sink[j].at - sink[i].at >= HalfSecond
    /\ \A i \in 1..Len(sink) :
          ~sink[i].final => sink[i].at - up[sink[i].req].started >= HalfSecond

\* C16: two requests inside UpdateFiles at the same time are about
\* different projects.
C16_Claim ==
    \A r1, r2 \in inUpdate : r1 # r2 => up[r1].project # up[r2].project

\* C19: after two successful script uploads of different modules to one
\* project the stored registry of the project holds both modules.
C19_Claim ==
    \A r1, r2 \in DOMAIN up :
        (/\ up[r1].kind = "script" /\ up[r2].kind = "script"
         /\ up[r1].project = up[r2].project /\ up[r1].module # up[r2].module
         /\ up[r1].pc = "done" /\ up[r1].ret = "nil"
         /\ up[r2].pc = "done" /\ up[r2].ret = "nil")
            => {up[r1].module, up[r2].module} \subseteq scripts[up[r1].project]

\* ------------------------------------------------------------ provider
\* C18: over any sequence of calls the provider yields the files in index
\* order, each once and with the path of its index; a failed open yields
\* an error and leaves the index; every call after the last file yields
\* the end of the sequence.
C18_Provider ==
    \A r \in DOMAIN up :
        up[r].pc = "provider" =>
            LET ys == up[r].yields
                fs == up[r].files
                oks == SelectSeq(ys, LAMBDA y : y.err = "nil")
            IN /\ Len(oks) <= Len(fs)
               /\ up[r].findex = Len(oks)
               /\ \A k \in 1..Len(oks) :
                     /\ oks[k].file = fs[k]
                     /\ oks[k].path = <<"web", "components", Filename(fs[k])>>
               /\ \A k \in 1..Len(ys) :
                     LET done == Len(SelectSeq(SubSeq(ys, 1, k - 1),
                                               LAMBDA y : y.err = "nil"))
                     IN /\ ys[k].err = "EOF" <=> done = Len(fs)
                        /\ ys[k].err = "error" => ys[k].after = done

C18_Witness ==
    /\ up["r1"].pc = "provider"
    /\ Len(up["r1"].files) = 2
    /\ Len(up["r1"].yields) = 4
    /\ up["r1"].yields[1].err = "error"
    /\ up["r1"].yields[2].err = "nil"
    /\ up["r1"].yields[3].err = "nil"
    /\ up["r1"].yields[4].err = "EOF"
====
